---- MODULE Spec2Model ----
(***************************************************************************)
(* Model of student_test_creator.py: the Streamlit quiz wizard.            *)
(*                                                                         *)
(* The state is st.session_state (the seven keys main() initialises plus   *)
(* the radio widget's key "current_answer").  Every action is one script   *)
(* run of main() triggered by one user event; it includes the st.rerun()   *)
(* that follows a handled button, i.e. the re-rendering of the next page.  *)
(* A button can be pressed only in a state whose script run renders it; a  *)
(* page that raises while rendering offers no button at all.               *)
(***************************************************************************)
EXTENDS Integers, Sequences, FiniteSets, TLC

\* ------------------------------------------------------------------ bounds
MaxQuestions == 2       \* longest "questions" list the service returns
MaxText      == 3       \* longest response text, in tokens
MaxScored    == 3       \* longest question list handed to the scorer alone
MaxParseText == 5       \* longest text handed to the parser alone

\* ------------------------------------------------------------- data model
NoSel == "<none>"       \* Python None as a radio value / absent widget
NoCorrect == "<missing>" \* a question without a 'correct_answer' key

Range(s) == {s[i] : i \in 1..Len(s)}

\* Python truthiness of a selected label: None and "" are falsy
TruthyLabel(l) == l /= NoSel /\ l /= ""

\* Questions the service may return.  text = the record has 'question_text';
\* options = the keys of 'options' in order; correct = 'correct_answer'.
QuestionPool ==
  { [text |-> TRUE,  options |-> <<"A", "B">>, correct |-> "A"],
    [text |-> TRUE,  options |-> <<"B", "C">>, correct |-> "C"],
    [text |-> TRUE,  options |-> <<>>,         correct |-> "A"],
    [text |-> TRUE,  options |-> <<"", "A">>,  correct |-> "A"],
    [text |-> FALSE, options |-> <<"A", "B">>, correct |-> "A"],
    [text |-> TRUE,  options |-> <<"A", "B">>, correct |-> NoCorrect] }

QuestionLists == UNION {[1..n -> QuestionPool] : n \in 0..MaxQuestions}

\* A value returned by parse_mcq_response: None, or a decoded JSON object.
\* other = the object has a key besides "questions"; hasq = it has the key
\* "questions", whose value is the list questions.
DataNone == [isdict |-> FALSE, other |-> FALSE, hasq |-> FALSE, questions |-> <<>>]
Dict(other, hasq, qs) ==
  [isdict |-> TRUE, other |-> other, hasq |-> hasq, questions |-> qs]

\* Python truthiness of test_data / mcq_data: None and {} are falsy
TruthyData(d) == d.isdict /\ (d.other \/ d.hasq)

\* ------------------------------------------------- response text and parser
\* The response text is a sequence of tokens: "{" and "}" are the braces,
\* "w" is prose, "Q" is a member  "questions": [...]  and "E" is a member
\* with another key.
Tokens == {"{", "}", "w", "Q", "E"}
Texts  == UNION {[1..n -> Tokens] : n \in 0..MaxText}

\* re.search(r'\{.*\}', text, re.DOTALL): leftmost "{", greedy to the last "}"
HasMatch(text) ==
  \E i, j \in 1..Len(text) : i < j /\ text[i] = "{" /\ text[j] = "}"
FirstOpen(text) ==
  CHOOSE i \in 1..Len(text) :
    text[i] = "{" /\ \A k \in 1..(i - 1) : text[k] /= "{"
LastClose(text) ==
  CHOOSE j \in 1..Len(text) :
    text[j] = "}" /\ \A k \in (j + 1)..Len(text) : text[k] /= "}"
JsonMatchNonGreedy(text) ==
  SubSeq(text, FirstOpen(text),
         CHOOSE j \in (FirstOpen(text) + 1)..Len(text) :
           text[j] = "}" /\ \A k \in (FirstOpen(text) + 1)..(j - 1) : text[k] /= "}")
JsonMatch(text) == SubSeq(text, FirstOpen(text), LastClose(text))

\* json.loads on a span that starts with "{" and ends with "}": it decodes
\* iff everything between the two braces is a member
Decodes(span) ==
  /\ Len(span) >= 2
  /\ span[1] = "{" /\ span[Len(span)] = "}"
  /\ \A k \in 2..(Len(span) - 1) : span[k] \in {"Q", "E"}
JsonLoads(span, qs) ==
  LET hasq == \E k \in 2..(Len(span) - 1) : span[k] = "Q"
  IN Dict(\E k \in 2..(Len(span) - 1) : span[k] = "E", hasq,
          IF hasq THEN qs ELSE <<>>)

\* qs is the list carried by the "Q" members of the text
parse_mcq_response(text, qs) ==
  IF HasMatch(text)
  THEN IF Decodes(JsonMatch(text)) THEN JsonLoads(JsonMatch(text), qs)
       ELSE DataNone
  ELSE DataNone

\* the texts whose decoded object carries a questions list
CarriesQuestions(text) ==
  HasMatch(text) /\ Decodes(JsonMatch(text)) /\ "Q" \in Range(JsonMatch(text))

\* What generate_mcqs returns: None (ok = FALSE) or the message content
Responses ==
  {[ok |-> FALSE, text |-> <<>>]} \cup {[ok |-> TRUE, text |-> t] : t \in Texts}
TruthyResponse(r) == r.ok /\ r.text /= <<>>

Names == {"", "ann", "bob"}


\* ------------------------------------------------ floating-point arithmetic
\* Python floats are IEEE-754 doubles.  A double is 0.0 (m = <<>>) or
\* m * 2^e with m a significand of Precision bits, most significant first,
\* whose first bit is 1.  Results are rounded to nearest, ties to even.
\* Long naturals are bit sequences, handled in limbs of LimbBits bits.
Precision == 53
LimbBits  == 15
Limb      == 2^LimbBits
FZero == [e |-> 0, m |-> <<>>]

Zeros(n) == [i \in 1..n |-> 0]

\* n < 2^w as w bits
BitsOfW(n, w) == [i \in 1..w |-> (n \div 2^(w - i)) % 2]

\* the value of a limb
RECURSIVE LimbValue(_)
LimbValue(b) ==
  IF b = <<>> THEN 0
  ELSE 2 * LimbValue(SubSeq(b, 1, Len(b) - 1)) + b[Len(b)]

StripZeros(b) ==
  IF \A i \in 1..Len(b) : b[i] = 0 THEN <<>>
  ELSE LET first == CHOOSE i \in 1..Len(b) :
                      b[i] = 1 /\ \A j \in 1..(i - 1) : b[j] = 0
       IN SubSeq(b, first, Len(b))

\* b + 1
Increment(b) ==
  IF \A i \in 1..Len(b) : b[i] = 1 THEN <<1>> \o Zeros(Len(b))
  ELSE LET last == CHOOSE i \in 1..Len(b) :
                     b[i] = 0 /\ \A j \in (i + 1)..Len(b) : b[j] = 1
       IN [i \in 1..Len(b) |->
             IF i < last THEN b[i] ELSE IF i = last THEN 1 ELSE 0]

\* the double nearest to bits * 2^e; sticky = the exact value lies strictly
\* above bits * 2^e and below (bits + 1) * 2^e
RoundBits(bits, e, sticky) ==
  LET b == StripZeros(bits)
      L == Len(b)
  IN IF L = 0 THEN FZero
     ELSE IF L <= Precision
       THEN [e |-> e - (Precision - L), m |-> b \o Zeros(Precision - L)]
     ELSE LET kept == SubSeq(b, 1, Precision)
              st   == sticky \/ \E i \in (Precision + 2)..L : b[i] = 1
              up   == b[Precision + 1] = 1 /\ (st \/ kept[Precision] = 1)
              r    == IF up THEN Increment(kept) ELSE kept
          IN IF Len(r) > Precision
             THEN [e |-> e + (L - Precision) + 1, m |-> SubSeq(r, 1, Precision)]
             ELSE [e |-> e + (L - Precision), m |-> r]

\* m * k for a significand m and a natural k < Limb: four limbs and a carry
MulSmall(m, k) ==
  LET b  == Zeros(4 * LimbBits - Len(m)) \o m
      l1 == LimbValue(SubSeq(b, 1, LimbBits))
      l2 == LimbValue(SubSeq(b, LimbBits + 1, 2 * LimbBits))
      l3 == LimbValue(SubSeq(b, 2 * LimbBits + 1, 3 * LimbBits))
      l4 == LimbValue(SubSeq(b, 3 * LimbBits + 1, 4 * LimbBits))
      p4 == l4 * k
      p3 == l3 * k + p4 \div Limb
      p2 == l2 * k + p3 \div Limb
      p1 == l1 * k + p2 \div Limb
  IN BitsOfW(p1 \div Limb, LimbBits) \o BitsOfW(p1 % Limb, LimbBits)
       \o BitsOfW(p2 % Limb, LimbBits) \o BitsOfW(p3 % Limb, LimbBits)
       \o BitsOfW(p4 % Limb, LimbBits)

\* float(n), n / t and x * k as Python evaluates them (0 < t < Limb,
\* 0 <= k < Limb).  The quotient is developed to five limbs after the point.
FFromInt(n) == RoundBits(BitsOfW(n, 2 * LimbBits), 0, FALSE)
FDivInt(c, t) ==
  LET r0 == c % t
      r1 == (r0 * Limb) % t
      r2 == (r1 * Limb) % t
      r3 == (r2 * Limb) % t
      r4 == (r3 * Limb) % t
      r5 == (r4 * Limb) % t
  IN RoundBits(BitsOfW(c \div t, LimbBits)
                 \o BitsOfW((r0 * Limb) \div t, LimbBits)
                 \o BitsOfW((r1 * Limb) \div t, LimbBits)
                 \o BitsOfW((r2 * Limb) \div t, LimbBits)
                 \o BitsOfW((r3 * Limb) \div t, LimbBits)
                 \o BitsOfW((r4 * Limb) \div t, LimbBits),
               0 - 5 * LimbBits, r5 /= 0)
FMulInt(x, k) ==
  IF x.m = <<>> THEN FZero ELSE RoundBits(MulSmall(x.m, k), x.e, FALSE)

\* x < y for doubles x, y >= 0
FLess(x, y) ==
  IF y.m = <<>> THEN FALSE
  ELSE IF x.m = <<>> THEN TRUE
  ELSE \/ x.e < y.e
       \/ /\ x.e = y.e
          /\ \E i \in 1..Precision :
               /\ x.m[i] < y.m[i]
               /\ \A j \in 1..(i - 1) : x.m[j] = y.m[j]

\* ------------------------------------------------------------------ state
VARIABLES test_created, test_data, test_started, test_completed,
          student_answers, current_question, student_name,
          current_answer,   \* value of the radio keyed "current_answer"
          score_data,       \* the report on the results page: <<>> or <<report>>
          run               \* what the last script run did (see RunOf)

session == <<test_created, test_data, test_started, test_completed,
             student_answers, current_question, student_name>>
vars == <<test_created, test_data, test_started, test_completed,
          student_answers, current_question, student_name,
          current_answer, score_data, run>>

EmptyAnswers == [k \in {} |-> ""]
AnswerKey(n) == <<"q_", n>>        \* f"q_{n}"

\* student_answers[key] = label
SetAnswer(m, key, label) ==
  [k \in DOMAIN m \cup {key} |-> IF k = key THEN label ELSE m[k]]

\* The record of a script run: the button pressed; for "create" the form
\* fields, whether generate_mcqs was called, what it returned ("failed" for
\* None, "empty" for "", "text" otherwise) and what parse_mcq_response
\* returned (DataNone when it was not called or returned None).
RunOf(event) ==
  [event |-> event, name |-> "", has_key |-> FALSE, has_topics |-> FALSE,
   called |-> FALSE, response |-> "none", mcq_data |-> DataNone]

Init ==
  /\ test_created = FALSE
  /\ test_data = DataNone
  /\ test_started = FALSE
  /\ test_completed = FALSE
  /\ student_answers = EmptyAnswers
  /\ current_question = 0
  /\ student_name = ""
  /\ current_answer = NoSel
  /\ score_data = <<>>
  /\ run = RunOf("init")

\* ------------------------------------------------------------- main dispatch
StageOf(created, started, completed) ==
  IF ~created THEN "Creating"
  ELSE IF ~started THEN "Ready"
  ELSE IF ~completed THEN "InProgress"
  ELSE "Completed"
stage == StageOf(test_created, test_started, test_completed)

\* ---------------------------------------------------------------- rendering
TotalQuestions(d) == Len(d.questions)

\* show_test_start_interface reaches its two buttons
StartPageRenders(d) == TruthyData(d) /\ d.hasq

\* show_test_interface reaches the radio and the navigation buttons: the
\* progress division, the index test and question['question_text'] pass
TestPageRenders(d, q) ==
  /\ TruthyData(d) /\ d.hasq
  /\ TotalQuestions(d) > 0
  /\ q < TotalQuestions(d)
  /\ d.questions[q + 1].text

\* calculate_score returns: no division by zero, every question has the
\* keys it reads
ScoreComputes(d) ==
  /\ d.hasq
  /\ TotalQuestions(d) > 0
  /\ \A i \in 1..TotalQuestions(d) :
       d.questions[i].text /\ d.questions[i].correct /= NoCorrect

\* show_results_interface reaches its button
ResultsPageRenders(d) == TruthyData(d) /\ ScoreComputes(d)

\* student_answers.get(f"q_{question_num}")
StudentAnswerZeroBased(answers, question_num) ==
  IF AnswerKey(question_num - 1) \in DOMAIN answers
  THEN answers[AnswerKey(question_num - 1)] ELSE NoSel
StudentAnswer(answers, question_num) ==
  IF AnswerKey(question_num) \in DOMAIN answers
  THEN answers[AnswerKey(question_num)] ELSE NoSel

\* the loop of calculate_score over the first n questions: correct_answers
RECURSIVE CountCorrect(_, _, _)
CountCorrect(questions, answers, n) ==
  IF n = 0 THEN 0
  ELSE CountCorrect(questions, answers, n - 1)
         + (IF StudentAnswer(answers, n) = questions[n].correct THEN 1 ELSE 0)

\* calculate_score(questions, student_answers), for questions it computes on
calculate_score(questions, answers) ==
  LET total_questions == Len(questions)
      correct_answers == CountCorrect(questions, answers, total_questions)
  IN [total_questions  |-> total_questions,
      correct_answers  |-> correct_answers,
      score_percentage |->
        FMulInt(FDivInt(correct_answers, total_questions), 100),
      results |->
        [i \in 1..total_questions |->
           [question_number |-> i,
            options         |-> questions[i].options,
            student_answer  |-> StudentAnswer(answers, i),
            correct_answer  |-> questions[i].correct,
            is_correct      |->
              StudentAnswer(answers, i) = questions[i].correct]]]

\* score_data of the run that renders the state: the report when the
\* results page is shown and the scorer returns
ScoreShown(created, started, completed, d, answers) ==
  IF /\ StageOf(created, started, completed) = "Completed"
     /\ ResultsPageRenders(d)
  THEN <<calculate_score(d.questions, answers)>>
  ELSE <<>>

\* the radio "current_answer" is rendered by a run in this state
RadioShown(created, started, completed, d, q) ==
  StageOf(created, started, completed) = "InProgress" /\ TestPageRenders(d, q)

ShownNow ==
  RadioShown(test_created, test_started, test_completed, test_data, current_question)
OptionsNow ==
  IF ShownNow THEN test_data.questions[current_question + 1].options ELSE <<>>

\* st.radio's return value for a stored widget value
RadioValue(stored, options) ==
  IF options = <<>> THEN NoSel
  ELSE IF stored \in Range(options) THEN stored
  ELSE options[1]

\* The values the radio can have after the rerun that renders the state
\* (created, started, completed, d, q).  Rendering the same question again
\* keeps the widget; for another question the widget either is a new one
\* (first option) or keeps a value that is among the new options, depending
\* on how the Streamlit build identifies a keyed widget.
RadioRerun(created, started, completed, d, q) ==
  IF ~RadioShown(created, started, completed, d, q) THEN {NoSel}
  ELSE LET new == d.questions[q + 1].options
       IN IF new = <<>> THEN {NoSel}
          ELSE IF ShownNow /\ d = test_data /\ q = current_question
               THEN {RadioValue(current_answer, new)}
          ELSE {new[1]} \cup
               (IF ShownNow /\ current_answer \in Range(new)
                THEN {current_answer} ELSE {})

\* the buttons a run renders
CreateOffered   == stage = "Creating"
StartOffered    == stage = "Ready" /\ StartPageRenders(test_data)
PreviousOffered == ShownNow /\ current_question > 0
NextOfferedPastEnd == ShownNow /\ current_question < TotalQuestions(test_data)
NextOffered     == ShownNow /\ current_question < TotalQuestions(test_data) - 1
FinishOfferedOutsideBlock ==
  /\ stage = "InProgress" /\ TruthyData(test_data) /\ test_data.hasq
  /\ current_question >= TotalQuestions(test_data) - 1
FinishOffered   == ShownNow /\ current_question = TotalQuestions(test_data) - 1
ResetOfferedOnResultsOnly ==
  stage = "Completed" /\ ResultsPageRenders(test_data)
ResetOffered    ==
  \/ stage = "Ready" /\ StartPageRenders(test_data)
  \/ stage = "Completed" /\ ResultsPageRenders(test_data)

\* ------------------------------------------------------------------ actions
\* the three validation returns of the create handler
FormValidWithoutTopics(name, has_key, has_topics) == name /= "" /\ has_key
FormValid(name, has_key, has_topics) == name /= "" /\ has_key /\ has_topics

\* "if response:" and "if mcq_data:" of the create handler
AcceptedUnparsed(resp, mcq_data) == TruthyResponse(resp)
AcceptedWithQuestionsOnly(resp, mcq_data) ==
  TruthyResponse(resp) /\ TruthyData(mcq_data) /\ mcq_data.hasq
Accepted(resp, mcq_data) == TruthyResponse(resp) /\ TruthyData(mcq_data)

ResponseKind(resp) ==
  IF ~resp.ok THEN "failed" ELSE IF resp.text = <<>> THEN "empty" ELSE "text"

\* "Create My Test" (show_test_creation_interface)
Create(name, has_key, has_topics, resp, qs) ==
  /\ CreateOffered
  /\ IF FormValid(name, has_key, has_topics)
     THEN LET mcq_data == IF TruthyResponse(resp)
                          THEN parse_mcq_response(resp.text, qs)
                          ELSE DataNone
          IN /\ student_name' = name
             /\ IF Accepted(resp, mcq_data)
                THEN /\ test_data' = mcq_data
                     /\ test_created' = TRUE
                ELSE UNCHANGED <<test_data, test_created>>
             /\ UNCHANGED <<test_started, test_completed, student_answers,
                            current_question>>
             /\ current_answer' \in
                  RadioRerun(test_created', test_started, test_completed,
                             test_data', current_question)
             /\ score_data' = <<>>
             /\ run' = [event |-> "create", name |-> name,
                        has_key |-> has_key, has_topics |-> has_topics,
                        called |-> TRUE, response |-> ResponseKind(resp),
                        mcq_data |-> mcq_data]
     ELSE /\ UNCHANGED <<session, current_answer, score_data>>
          /\ run' = [event |-> "create", name |-> name,
                     has_key |-> has_key, has_topics |-> has_topics,
                     called |-> FALSE, response |-> "none",
                     mcq_data |-> DataNone]

\* "Start Test" (show_test_start_interface)
StartSkippingTest ==
  /\ StartOffered
  /\ test_started' = TRUE
  /\ test_completed' = TRUE
  /\ current_question' = 0
  /\ UNCHANGED <<test_created, test_data, student_answers, student_name>>
  /\ current_answer' = NoSel
  /\ score_data' = <<>>
  /\ run' = RunOf("start")
Reversed(s) == [i \in 1..Len(s) |-> s[Len(s) + 1 - i]]
StartShuffling ==
  /\ StartOffered
  /\ test_started' = TRUE
  /\ current_question' = 0
  /\ test_data' = [test_data EXCEPT !.questions = Reversed(@)]
  /\ UNCHANGED <<test_created, test_completed, student_answers, student_name>>
  /\ current_answer' \in
       RadioRerun(test_created, TRUE, test_completed, test_data', 0)
  /\ score_data' = <<>>
  /\ run' = RunOf("start")
StartAtOne ==
  /\ StartOffered
  /\ test_started' = TRUE
  /\ current_question' = 1
  /\ UNCHANGED <<test_created, test_data, test_completed,
                 student_answers, student_name>>
  /\ current_answer' \in
       RadioRerun(test_created, TRUE, test_completed, test_data, 1)
  /\ score_data' = <<>>
  /\ run' = RunOf("start")
Start ==
  /\ StartOffered
  /\ test_started' = TRUE
  /\ current_question' = 0
  /\ UNCHANGED <<test_created, test_data, test_completed,
                 student_answers, student_name>>
  /\ current_answer' \in
       RadioRerun(test_created, TRUE, test_completed, test_data, 0)
  /\ score_data' = <<>>
  /\ run' = RunOf("start")

\* "# Save current answer" in the three navigation handlers
SaveCurrentAnswerZeroBased(answers, q, selected_answer) ==
  IF TruthyLabel(selected_answer)
  THEN SetAnswer(answers, AnswerKey(q), selected_answer)
  ELSE answers
SaveCurrentAnswer(answers, q, selected_answer) ==
  IF TruthyLabel(selected_answer)
  THEN SetAnswer(answers, AnswerKey(q + 1), selected_answer)
  ELSE answers

\* "Previous" (show_test_interface, col1)
Previous ==
  /\ PreviousOffered
  /\ student_answers' =
       SaveCurrentAnswer(student_answers, current_question, current_answer)
  /\ current_question' = current_question - 1
  /\ UNCHANGED <<test_created, test_data, test_started, test_completed,
                 student_name>>
  /\ current_answer' \in
       RadioRerun(test_created, test_started, test_completed,
                  test_data, current_question')
  /\ score_data' = <<>>
  /\ run' = RunOf("previous")

\* "Next" (show_test_interface, col2)
NextQuestion ==
  /\ NextOffered
  /\ student_answers' =
       SaveCurrentAnswer(student_answers, current_question, current_answer)
  /\ current_question' = current_question + 1
  /\ UNCHANGED <<test_created, test_data, test_started, test_completed,
                 student_name>>
  /\ current_answer' \in
       RadioRerun(test_created, test_started, test_completed,
                  test_data, current_question')
  /\ score_data' = <<>>
  /\ run' = RunOf("next")

\* "Finish Test" (show_test_interface, col3)
Finish ==
  /\ FinishOffered
  /\ student_answers' =
       SaveCurrentAnswer(student_answers, current_question, current_answer)
  /\ test_completed' = TRUE
  /\ UNCHANGED <<test_created, test_data, test_started,
                 current_question, student_name>>
  /\ current_answer' \in
       RadioRerun(test_created, test_started, TRUE,
                  test_data, current_question)
  /\ score_data' =
       ScoreShown(test_created, test_started, TRUE, test_data, student_answers')
  /\ run' = RunOf("finish")

\* "Create New Test" / "Create Another Test": every key is deleted and the
\* rerun's main() initialises the session again
ResetCreatedOnly ==
  /\ ResetOffered
  /\ test_created' = FALSE
  /\ test_data' = DataNone
  /\ UNCHANGED <<test_started, test_completed, student_answers,
                 current_question, student_name>>
  /\ current_answer' = NoSel
  /\ score_data' = <<>>
  /\ run' = RunOf("reset")
ResetKeepingName ==
  /\ ResetOffered
  /\ test_created' = FALSE
  /\ test_data' = DataNone
  /\ test_started' = FALSE
  /\ test_completed' = FALSE
  /\ student_answers' = EmptyAnswers
  /\ current_question' = 0
  /\ UNCHANGED student_name
  /\ current_answer' = NoSel
  /\ score_data' = <<>>
  /\ run' = RunOf("reset")
Reset ==
  /\ ResetOffered
  /\ test_created' = FALSE
  /\ test_data' = DataNone
  /\ test_started' = FALSE
  /\ test_completed' = FALSE
  /\ student_answers' = EmptyAnswers
  /\ current_question' = 0
  /\ student_name' = ""
  /\ current_answer' = NoSel
  /\ score_data' = <<>>
  /\ run' = RunOf("reset")

\* the user picks an option of the radio (show_test_interface)
Select(label) ==
  /\ ShownNow
  /\ label \in Range(OptionsNow)
  /\ current_answer' = label
  /\ UNCHANGED session
  /\ score_data' = <<>>
  /\ run' = RunOf("select")

\* a run of the results page without a button pressed
\* (show_results_interface up to display_results)
RenderResultsConsuming ==
  /\ stage = "Completed"
  /\ student_answers' = EmptyAnswers
  /\ UNCHANGED <<test_created, test_data, test_started, test_completed,
                 current_question, student_name, current_answer>>
  /\ score_data' =
       ScoreShown(test_created, test_started, test_completed, test_data,
                  student_answers)
  /\ run' = RunOf("render")
RenderResults ==
  /\ stage = "Completed"
  /\ UNCHANGED <<session, current_answer>>
  /\ score_data' =
       ScoreShown(test_created, test_started, test_completed, test_data,
                  student_answers)
  /\ run' = RunOf("render")

Labels == {"", "A", "B", "C"}

\* The inputs of Create that can make a difference: the response matters
\* only when a name and a credential are given, the questions list only
\* when the response text carries one.
NoResponse == [ok |-> FALSE, text |-> <<>>]
CreateResponses(name, has_key, has_topics) ==
  IF name /= "" /\ has_key THEN Responses ELSE {NoResponse}
CreatePayloads(resp) ==
  IF CarriesQuestions(resp.text) THEN QuestionLists ELSE {<<>>}

Next ==
  \/ /\ CreateOffered
     /\ \E name \in Names, has_key \in BOOLEAN, has_topics \in BOOLEAN :
          \E resp \in CreateResponses(name, has_key, has_topics) :
            \E qs \in CreatePayloads(resp) :
              Create(name, has_key, has_topics, resp, qs)
  \/ Start
  \/ Previous
  \/ NextQuestion
  \/ Finish
  \/ Reset
  \/ RenderResults
  \/ \E label \in Labels : Select(label)

Spec == Init /\ [][Next]_vars

TypeOK ==
  /\ test_created \in BOOLEAN /\ test_started \in BOOLEAN
  /\ test_completed \in BOOLEAN
  /\ current_question \in 0..MaxQuestions
  /\ student_name \in Names
  /\ current_answer \in Labels \cup {NoSel}

\* ================================================================ properties
InitialSession == <<FALSE, DataNone, FALSE, FALSE, EmptyAnswers, 0, "">>
LastIndex == TotalQuestions(test_data) - 1
NavigationEvents == {"previous", "next", "finish"}

\* C1: the stage only moves one step forward along Creating -> Ready ->
\* InProgress -> Completed; the only other stage change is a reset, which
\* goes to Creating.
C1_StageForward ==
  [][ \/ stage' = stage
      \/ stage = "Creating" /\ stage' = "Ready"
      \/ stage = "Ready" /\ stage' = "InProgress"
      \/ stage = "InProgress" /\ stage' = "Completed"
      \/ run'.event = "reset" /\ stage' = "Creating" ]_vars
C1_Witness == stage = "Completed" /\ run.event = "finish"

\* C2: while the stage is InProgress, 0 <= current_index < len(question_set),
\* for every question set the creation step accepts (an empty questions list
\* included).
C2_IndexInRange ==
  stage = "InProgress" =>
    0 <= current_question /\ current_question < TotalQuestions(test_data)

\* C3: every key of the AnswerMap is "q_<n>" for a question number n in
\* 1..len(question_set).
C3_AnswerKeysInRange ==
  \A k \in DOMAIN student_answers :
    \E n \in 1..TotalQuestions(test_data) : k = AnswerKey(n)
C3_Witness ==
  /\ stage = "Completed"
  /\ TotalQuestions(test_data) >= 2
  /\ DOMAIN student_answers =
       {AnswerKey(n) : n \in 1..TotalQuestions(test_data)}

\* C4: while InProgress, previous at index 0 and next at the last index
\* change nothing, previous and next elsewhere move the index by exactly one,
\* and finish leads to Completed only at the last index and is otherwise a
\* no-op.
C4_NavigationBounds ==
  [][ stage = "InProgress" =>
        /\ (run'.event = "previous" /\ current_question = 0
              => UNCHANGED session)
        /\ (run'.event = "next" /\ current_question = LastIndex
              => UNCHANGED session)
        /\ (run'.event = "previous" /\ current_question /= 0
              => current_question' = current_question - 1 /\ stage' = stage)
        /\ (run'.event = "next" /\ current_question /= LastIndex
              => current_question' = current_question + 1 /\ stage' = stage)
        /\ (run'.event = "finish"
              => IF current_question = LastIndex
                 THEN stage' = "Completed"
                      /\ current_question' = current_question
                 ELSE UNCHANGED session) ]_vars
C4_Witness ==
  /\ stage = "InProgress"
  /\ run.event = "previous"
  /\ current_question = 0
  /\ TotalQuestions(test_data) >= 2

\* C5: every next, previous or finish action writes the label selected for
\* the question on screen, if there is one, under that question's number and
\* leaves every other AnswerMap entry as it was.
C5_SelectedLabelSaved ==
  [][ run'.event \in NavigationEvents =>
        LET key == AnswerKey(current_question + 1)
        IN /\ current_answer /= NoSel =>
                /\ key \in DOMAIN student_answers'
                /\ student_answers'[key] = current_answer
           /\ current_answer = NoSel => student_answers' = student_answers
           /\ DOMAIN student_answers' \ {key} = DOMAIN student_answers \ {key}
           /\ \A k \in DOMAIN student_answers \ {key} :
                student_answers'[k] = student_answers[k] ]_vars

\* C6: after a reset the session state is the initial one: stage Creating,
\* no QuestionSet, empty AnswerMap, index 0, empty name.
C6_ResetRestoresInitial ==
  [][ run'.event = "reset" => session' = InitialSession ]_vars
C6_Witness ==
  run.event = "reset" /\ session = InitialSession /\ current_answer = NoSel

C8_InvalidFormRejected ==
  [][ /\ run'.event = "create"
      /\ (run'.name = "" \/ ~run'.has_key \/ ~run'.has_topics)
      => UNCHANGED session /\ ~run'.called ]_vars
C8_Witness ==
  /\ run.event = "create"
  /\ run.name /= "" /\ run.has_key /\ ~run.has_topics
  /\ ~run.called

GenerationOrParseFailed(r) ==
  /\ r.event = "create"
  /\ r.called
  /\ (r.response \in {"failed", "empty"} \/ ~r.mcq_data.isdict)

\* C9 (as claimed): when generation or parsing fails, every field of the
\* session state, the student name included, is as before the action.
C9_FailureChangesNothing ==
  [][ GenerationOrParseFailed(run') => UNCHANGED session ]_vars

\* C9 (amended): when generation or parsing fails, the stage remains
\* Creating and no QuestionSet is stored; every field is as before except
\* the student name, which is the name entered in the form.
C9_FailureKeepsAllButName ==
  [][ GenerationOrParseFailed(run') =>
        /\ stage' = "Creating"
        /\ UNCHANGED <<test_created, test_data, test_started, test_completed,
                       student_answers, current_question>>
        /\ student_name' = run'.name ]_vars
C9_Witness ==
  /\ GenerationOrParseFailed(run)
  /\ run.response = "text"
  /\ stage = "Creating"
  /\ student_name = "bob"

\* C10 (as claimed): whenever the parser decodes a JSON object from the
\* returned text, whatever it contains, the stage becomes Ready with that
\* object stored, the AnswerMap empty and the index 0.
C10_AnyDecodedObjectStored ==
  [][ /\ run'.event = "create"
      /\ run'.response = "text"
      /\ run'.mcq_data.isdict
      => /\ stage' = "Ready"
         /\ test_data' = run'.mcq_data
         /\ student_answers' = EmptyAnswers
         /\ current_question' = 0 ]_vars

\* C10 (amended): whenever the parser decodes a non-empty JSON object from
\* the returned text, whatever its keys, the stage becomes Ready with that
\* object stored, the AnswerMap empty and the index 0.
C10_NonEmptyObjectStored ==
  [][ /\ run'.event = "create"
      /\ run'.response = "text"
      /\ run'.mcq_data.isdict
      /\ (run'.mcq_data.other \/ run'.mcq_data.hasq)
      => /\ stage' = "Ready"
         /\ test_data' = run'.mcq_data
         /\ student_answers' = EmptyAnswers
         /\ current_question' = 0 ]_vars
C10_Witness ==
  /\ stage = "Ready"
  /\ run.event = "create"
  /\ test_data = run.mcq_data
  /\ ~test_data.hasq

\* ------------------------------------------------------- the scorer alone
\* calculate_score on every well-formed question list of up to MaxScored
\* questions and every AnswerMap over its question numbers: the results
\* page is rendered on a session that holds them.
ScoredQuestions == {q \in QuestionPool : q.text /\ q.correct /= NoCorrect}
ScoredLists == UNION {[1..n -> ScoredQuestions] : n \in 1..MaxScored}
ScoredLabels == Labels \ {""}
AnswerMaps(n) ==
  UNION {[keys -> ScoredLabels] : keys \in SUBSET {AnswerKey(i) : i \in 1..n}}

ScoreInit ==
  /\ test_created = TRUE
  /\ test_started = TRUE
  /\ test_completed = TRUE
  /\ test_data \in {Dict(FALSE, TRUE, qs) : qs \in ScoredLists}
  /\ student_answers \in AnswerMaps(TotalQuestions(test_data))
  /\ current_question = TotalQuestions(test_data) - 1
  /\ student_name = "ann"
  /\ current_answer = NoSel
  /\ score_data = <<>>
  /\ run = RunOf("init")

ScoreNext == RenderResults
ScoreSpec == ScoreInit /\ [][ScoreNext]_vars

\* the questions answered with their correct label
AnsweredRight ==
  {i \in 1..TotalQuestions(test_data) :
     /\ AnswerKey(i) \in DOMAIN student_answers
     /\ student_answers[AnswerKey(i)] = test_data.questions[i].correct}

\* the part of C11 about counts and per-question results
ReportCounts(report) ==
  /\ report.total_questions = TotalQuestions(test_data)
  /\ report.correct_answers = Cardinality(AnsweredRight)
  /\ Len(report.results) = TotalQuestions(test_data)
  /\ \A i \in 1..TotalQuestions(test_data) :
       /\ report.results[i].question_number = i
       /\ report.results[i].is_correct = (i \in AnsweredRight)
       /\ IF AnswerKey(i) \in DOMAIN student_answers
          THEN report.results[i].student_answer = student_answers[AnswerKey(i)]
          ELSE /\ report.results[i].student_answer = NoSel
               /\ ~report.results[i].is_correct

C12_ScorerGetsQuestions ==
  stage = "Completed" => TotalQuestions(test_data) >= 1
C12_Witness ==
  stage = "Completed" /\ run.event = "finish" /\ score_data /= <<>>

\* C13: rendering the results changes no part of the session state, and
\* rendering them again yields the same ScoreReport.
C13_RenderIsPure ==
  [][ run'.event = "render" =>
        UNCHANGED session /\ score_data' = score_data ]_vars
C13_Witness ==
  /\ run.event = "render"
  /\ score_data /= <<>>
  /\ score_data[1].correct_answers >= 1

\* ------------------------------------------------------- the parser alone
\* parse_mcq_response on every text of up to MaxParseText tokens; run holds
\* the text, the list its "Q" members carry and the value returned.
ParseTexts == UNION {[1..n -> Tokens] : n \in 0..MaxParseText}
ParsePayloads == {qs \in QuestionLists : Len(qs) <= 1}

ParseInit ==
  /\ test_created = FALSE
  /\ test_data = DataNone
  /\ test_started = FALSE
  /\ test_completed = FALSE
  /\ student_answers = EmptyAnswers
  /\ current_question = 0
  /\ student_name = "ann"
  /\ current_answer = NoSel
  /\ score_data = <<>>
  /\ run \in {[event |-> "response", text |-> t, qs |-> qs,
               mcq_data |-> DataNone] : t \in ParseTexts, qs \in ParsePayloads}

ParseResponse ==
  /\ run.event = "response"
  /\ run' = [run EXCEPT !.event = "parsed",
                        !.mcq_data = parse_mcq_response(run.text, run.qs)]
  /\ UNCHANGED <<session, current_answer, score_data>>

ParseNext == ParseResponse
ParseSpec == ParseInit /\ [][ParseNext]_vars

OpenBraces(t)  == {i \in 1..Len(t) : t[i] = "{"}
CloseBraces(t) == {i \in 1..Len(t) : t[i] = "}"}
Least(S)    == CHOOSE i \in S : \A j \in S : i <= j
Greatest(S) == CHOOSE i \in S : \A j \in S : j <= i

\* C14: the parser decodes exactly the substring from the first "{" to the
\* last "}": it returns the decoded object when that span exists and
\* decodes, and a failure when no "{" is followed by a "}" or the span does
\* not decode, even if the text contains a shorter valid object.
C14_ParserSpan ==
  run.event = "parsed" =>
    LET t == run.text
    IN IF /\ OpenBraces(t) /= {} /\ CloseBraces(t) /= {}
          /\ Least(OpenBraces(t)) < Greatest(CloseBraces(t))
       THEN LET span == SubSeq(t, Least(OpenBraces(t)), Greatest(CloseBraces(t)))
            IN IF Decodes(span)
               THEN run.mcq_data = JsonLoads(span, run.qs)
               ELSE run.mcq_data = DataNone
       ELSE run.mcq_data = DataNone
C14_Witness ==
  /\ run.event = "parsed"
  /\ run.mcq_data = DataNone
  /\ \E i, j \in 1..Len(run.text) :
       i < j /\ Decodes(SubSeq(run.text, i, j))

\* C15: once a QuestionSet is stored, start, next, previous, finish and the
\* rendering of results leave it as it is; only a reset discards it.
C15_QuestionSetImmutable ==
  [][ test_created /\ run'.event /= "reset" => test_data' = test_data ]_vars
C15_Witness ==
  /\ stage = "Completed"
  /\ run.event = "render"
  /\ TotalQuestions(test_data) >= 2

\* C16: a start action happens only in stage Ready with a QuestionSet
\* present and changes only the stage flag: QuestionSet, AnswerMap, name and
\* current_index (0 before and after) are unchanged.
C16_StartOnlySetsFlag ==
  [][ run'.event = "start" =>
        /\ stage = "Ready" /\ TruthyData(test_data)
        /\ stage' = "InProgress"
        /\ UNCHANGED <<test_created, test_data, test_completed,
                       student_answers, student_name>>
        /\ current_question = 0 /\ current_question' = 0 ]_vars
C16_Witness == run.event = "start" /\ stage = "InProgress"

\* C17: test_completed implies test_started, test_started implies
\* test_created, and test_created implies a non-empty decoded object in
\* test_data, so no interface runs without test data.
C17_FlagsNested ==
  /\ test_completed => test_started
  /\ test_started => test_created
  /\ test_created => TruthyData(test_data)
C17_Witness == test_completed /\ run.event = "render"

\* C18: a question that has an AnswerMap entry and is revisited and left
\* again without a new selection keeps its entry.
C18_RevisitKeepsAnswer ==
  [][ /\ run.event \in {"previous", "next"}
      /\ run'.event \in NavigationEvents
      /\ AnswerKey(current_question + 1) \in DOMAIN student_answers
      => /\ AnswerKey(current_question + 1) \in DOMAIN student_answers'
         /\ student_answers'[AnswerKey(current_question + 1)]
              = student_answers[AnswerKey(current_question + 1)] ]_vars

\* C19: in stage Completed, if every question has at least one option, the
\* AnswerMap has an entry for every question number.
C19_AllAnswered ==
  (/\ stage = "Completed"
   /\ \A i \in 1..TotalQuestions(test_data) :
        test_data.questions[i].options /= <<>>)
  => \A n \in 1..TotalQuestions(test_data) :
       AnswerKey(n) \in DOMAIN student_answers

\* C20: no reachable InProgress state is a dead end: its page offers next
\* or finish (the whole guard of NextQuestion and of Finish), so repeated
\* next actions lead to the last question and finish leads to Completed.
C20_NoDeadEnd ==
  stage = "InProgress" => NextOffered \/ FinishOffered

====
